---- MODULE Spec2Model ----
(***************************************************************************)
(* Sync-and-classify pipeline of the email reply tracker.                  *)
(*                                                                         *)
(* The model follows backend/src/routes/sync.routes.ts (POST              *)
(* /mailbox/:mailboxId and POST /all), the Gmail adapter                   *)
(* (services/gmail.service.ts), the shared OAuth client (config/gmail.ts)  *)
(* and the uniqueness / foreign-key constraints of supabase/schema.sql.    *)
(* Every await of a handler is one step; the outcome of the awaited call   *)
(* (result, error object, rejected promise) is chosen by the environment.  *)
(***************************************************************************)
EXTENDS Integers, Sequences, FiniteSets, TLC

(* ------------------------------ bounds --------------------------------- *)

\* number of sync invocations explored in one behaviour
MaxRuns == 2

\* largest maxResults value a request carries
MaxResultsBound == 2

\* most words in the subject of an email handed to the classifier
MaxSubjectWords == 1

\* most words in the body of an email handed to the classifier
MaxBodyWords == 3

\* most parts directly under the payload of a provider message
MaxParts == 2

\* most parts inside a nested multipart part
MaxNestedParts == 2

(* --------------------------- fixed test data --------------------------- *)

Users == {"u1", "u2"}

\* rows of the mailboxes table: id, user_id, status
MailboxIds == {"m1", "m2", "m3", "m4"}

UserOf(m) == IF m = "m4" THEN "u2" ELSE "u1"

StatusOf(m) == IF m = "m2" THEN "disabled" ELSE "connected"

\* a request may also name a mailbox id that is not in the table
RequestMailboxIds == MailboxIds \cup {"mx"}

\* the provider's inbox of every mailbox (unchanged provider data);
\* m4 is the same Google account as m1 connected by another user
Inbox(m) ==
    CASE m = "m1" -> <<"a", "b">>
      [] m = "m2" -> <<>>
      [] m = "m3" -> <<>>
      [] m = "m4" -> <<"a">>

\* the provider message ids that occur in some inbox
GmailIds == {"a", "b"}

\* provider thread id of a provider message
GmailThreadOf(g) == "t1"

Min(a, b) == IF a <= b THEN a ELSE b

(* ------------------------------- state --------------------------------- *)

VARIABLES
    threads,          \* threads table: sequence of rows, row id = index
    messages,         \* messages table
    classifications,  \* classifications table
    watermark,        \* mailboxes.last_synced_at, 0 = NULL
    now,              \* logical clock, advanced by every invocation
    creds,            \* mailbox whose tokens the shared oauth2Client holds
    inv,              \* the sync invocations (request handlers)
    gem,              \* a GeminiService.classifyEmail call
    norm,             \* a GmailService.parseMessage call
    api               \* a request to the replies or the analytics router

\* the state of the sync routes and of the store
syncVars == <<threads, messages, classifications, watermark, now, creds, inv>>

\* the state of the service calls that are examined on their own
aux == <<gem, norm, api>>

vars == <<threads, messages, classifications, watermark, now, creds, inv,
          gem, norm, api>>

\* invocations of every specification, and those of the sequential one
Procs == {1, 2}

SeqProcs == {1}

\* no service call is being examined
NoCall == [pc |-> "none"]

(* --------------------------- persistence store ------------------------- *)

\* PostgREST .single(): the row when exactly one row matches, else no data
SingleRow(S) == IF Cardinality(S) = 1 THEN CHOOSE x \in S : TRUE ELSE 0

FindMessage(msgs, gid) ==
    SingleRow({i \in 1..Len(msgs) : msgs[i].gid = gid})

FindClassification(clss, mid) ==
    SingleRow({i \in 1..Len(clss) : clss[i].msg = mid})

FindThread(thrs, mb, gtid) ==
    SingleRow({i \in 1..Len(thrs) : thrs[i].mb = mb /\ thrs[i].gtid = gtid})

\* the same table without UNIQUE(mailbox_id, gmail_thread_id)
ThreadInsertAllowedNoUnique(thrs, mb, gtid) ==
    mb \in MailboxIds

\* threads: mailbox_id REFERENCES mailboxes, UNIQUE(mailbox_id, gmail_thread_id)
ThreadInsertAllowed(thrs, mb, gtid) ==
    /\ mb \in MailboxIds
    /\ \A i \in 1..Len(thrs) : ~(thrs[i].mb = mb /\ thrs[i].gtid = gtid)

\* the same table without its unique constraint on gmail_message_id
MessageInsertAllowedNoUnique(thrs, msgs, tid, gid) ==
    tid \in 1..Len(thrs)

\* messages: thread_id REFERENCES threads, gmail_message_id UNIQUE
MessageInsertAllowed(thrs, msgs, tid, gid) ==
    /\ tid \in 1..Len(thrs)
    /\ \A i \in 1..Len(msgs) : msgs[i].gid # gid

\* the same table without UNIQUE(message_id)
ClassificationInsertAllowedNoUnique(msgs, clss, mid) ==
    mid \in 1..Len(msgs)

\* classifications: message_id REFERENCES messages, UNIQUE(message_id)
ClassificationInsertAllowed(msgs, clss, mid) ==
    /\ mid \in 1..Len(msgs)
    /\ \A i \in 1..Len(clss) : clss[i].msg # mid

\* the insert writes over the newest row of the table
InsertRowOverNewest(rows, row) ==
    IF rows = <<>> THEN <<row>> ELSE [rows EXCEPT ![Len(rows)] = row]

\* .insert(row): the table gets one more row, the rows it has stay
InsertRow(rows, row) == Append(rows, row)

\* an insert the store is asked to perform succeeds only when the
\* environment lets it through and the table's constraints admit the row
Effective(o, allowed) == IF o = "ok" /\ ~allowed THEN "err" ELSE o

(* ------------------------- invocation-local state ---------------------- *)

NoResponse == [kind |-> "none"]

\* bookkeeping of the message being handled (observation only); failed
\* records that an awaited call of this handling failed
NoCur == [gid |-> "none", pre |-> "none", own |-> FALSE, lookup |-> "none",
          failed |-> FALSE, clsStored |-> FALSE,
          dP |-> 0, dC |-> 0, dT |-> 0, dM |-> 0, dK |-> 0, status |-> "none"]

IdleInv ==
    [pc |-> "idle", kind |-> "none", user |-> "none", reqMb |-> "none",
     maxResults |-> 0, mbs |-> <<>>, mi |-> 0, ids |-> <<>>, idx |-> 0,
     processed |-> 0, classified |-> 0,
     existing |-> 0, threadId |-> 0, inserted |-> 0,
     results |-> <<>>, response |-> NoResponse,
     cur |-> NoCur, attempted |-> <<>>,
     listCount |-> [m \in MailboxIds |-> 0],
     listFailed |-> {},
     wmCount |-> [m \in MailboxIds |-> 0],
     wmAt |-> [m \in MailboxIds |-> 0],
     wmDone |-> {},
     pre0 |-> [g \in GmailIds |-> "none"],
     threw |-> {},
     usedCreds |-> "none"]

\* the route handler the invocation runs
IsFleet(r) == r.kind = "all"

\* the mailbox the invocation is syncing
Mailbox(r) == r.mbs[r.mi]

\* what the store holds for a provider message id when its handling starts
PreStatus(msgs, clss, gid) ==
    LET m == FindMessage(msgs, gid) IN
    IF m = 0 THEN "absent"
    ELSE IF FindClassification(clss, m) = 0 THEN "unclassified"
    ELSE "classified"

\* the stored message of that id hangs under a thread of mailbox mb
PreOwn(thrs, msgs, gid, mb) ==
    LET m == FindMessage(msgs, gid) IN
    m # 0 /\ thrs[msgs[m].thread].mb = mb

(* ----------------------------- loop control ---------------------------- *)

\* the watermark update is made only when some message was stored
AfterLoopPcOnlyWhenProcessed(r) ==
    IF r.processed = 0 /\ ~IsFleet(r) THEN "respond" ELSE "watermark"

\* the statement after the message loop: the last_synced_at update
AfterLoopPc(r) == "watermark"

\* for (const messageId of messageIds): take identifier i, or leave the loop
BeginMsg(r, i, thrs, msgs, clss) ==
    IF i <= Len(r.ids)
    THEN [r EXCEPT !.idx = i, !.pc = "fetch",
                   !.existing = 0, !.threadId = 0, !.inserted = 0,
                   !.cur = [NoCur EXCEPT
                              !.gid = r.ids[i],
                              !.pre = PreStatus(msgs, clss, r.ids[i]),
                              !.own = PreOwn(thrs, msgs, r.ids[i], Mailbox(r))]]
    ELSE [r EXCEPT !.idx = i, !.pc = AfterLoopPc(r),
                   !.existing = 0, !.threadId = 0, !.inserted = 0,
                   !.cur = NoCur]

\* the handling of the current identifier ends (continue, end of the loop
\* body, or a catch block) with the given status
FinishMsg(r, status) ==
    [r EXCEPT !.pc = "endMsg", !.cur.status = status,
              !.attempted = Append(@, r.cur.gid)]

Failed(r) == [r EXCEPT !.cur.failed = TRUE]

SetInv(p, r) == inv' = [inv EXCEPT ![p] = r]

StoreOutcomes == {"ok", "err", "throw"}

(* ------------------------- starting an invocation ---------------------- *)

\* POST /mailbox/:mailboxId arrives: parse the request
StartSingle(p) ==
    /\ inv[p].pc = "idle"
    /\ now < MaxRuns
    /\ \E u \in Users, m \in RequestMailboxIds, k \in 1..MaxResultsBound :
         SetInv(p, [IdleInv EXCEPT !.pc = "getMailbox", !.kind = "single",
                                   !.user = u, !.reqMb = m, !.maxResults = k])
    /\ now' = now + 1
    /\ UNCHANGED <<threads, messages, classifications, watermark, creds, aux>>

\* the lookup asks for the mailbox id alone
MailboxFoundAnyUser(r) == r.reqMb \in MailboxIds

\* .eq('id', mailboxId).eq('user_id', req.userId).single() has a row
MailboxFound(r) == r.reqMb \in MailboxIds /\ UserOf(r.reqMb) = r.user

\* mailboxes .eq(id).eq(user_id).single(): the row, or 'Mailbox not found'
GetMailbox(p) ==
    LET r == inv[p] IN
    /\ r.pc = "getMailbox"
    /\ \E o \in StoreOutcomes :
         IF o = "ok" /\ MailboxFound(r)
         THEN SetInv(p, [r EXCEPT !.pc = "list", !.mbs = <<r.reqMb>>, !.mi = 1])
         ELSE SetInv(p, [r EXCEPT !.pc = "idle",
                           !.threw = IF o = "throw" THEN {r.reqMb} ELSE {},
                           !.response = [kind |-> "error",
                                         status |-> IF o = "throw" THEN 500 ELSE 404]])
    /\ UNCHANGED <<threads, messages, classifications, watermark, now, creds, aux>>

\* POST /all arrives
StartAll(p) ==
    /\ inv[p].pc = "idle"
    /\ now < MaxRuns
    /\ \E u \in Users, k \in 1..MaxResultsBound :
         SetInv(p, [IdleInv EXCEPT !.pc = "selectMailboxes", !.kind = "all",
                                   !.user = u, !.maxResults = k])
    /\ now' = now + 1
    /\ UNCHANGED <<threads, messages, classifications, watermark, creds, aux>>

\* mailboxes .eq('user_id', req.userId).eq('status', 'connected')
Selected(u) == {m \in MailboxIds : UserOf(m) = u /\ StatusOf(m) = "connected"}

\* the orders in which the store may return a set of rows
Orders(S) ==
    {s \in [1..Cardinality(S) -> S] : \A i, j \in 1..Cardinality(S) : s[i] = s[j] => i = j}

SelectMailboxes(p) ==
    LET r == inv[p] IN
    /\ r.pc = "selectMailboxes"
    /\ \E o \in StoreOutcomes :
         IF o = "ok"
         THEN \E s \in Orders(Selected(r.user)) :
                IF Len(s) = 0
                THEN SetInv(p, [r EXCEPT !.pc = "idle",
                                  !.response = [kind |-> "results", results |-> <<>>]])
                ELSE SetInv(p, [r EXCEPT !.pc = "list", !.mbs = s, !.mi = 1])
         ELSE SetInv(p, [r EXCEPT !.pc = "idle",
                           !.response = [kind |-> "error", status |-> 500]])
    /\ UNCHANGED <<threads, messages, classifications, watermark, now, creds, aux>>

(* ------------------------------- provider ------------------------------ *)

\* what messages.list answers for the account the client is authorised as
Listing(m, k) == SubSeq(Inbox(m), 1, Min(k, Len(Inbox(m))))

\* the catch block of listMessages hands back the listing all the same
ListResultIgnoringFailure(o, m, k) == Listing(m, k)

\* try { ... return response.data.messages ids } catch { return [] }
ListResult(o, m, k) == IF o = "ok" THEN Listing(m, k) ELSE <<>>

\* the counters of the previous mailbox are carried on
StartCountsCarried(r) == r

\* let processedCount = 0; let classifiedCount = 0 before the message loop
StartCounts(r) == [r EXCEPT !.processed = 0, !.classified = 0]

\* gmailService.listMessages: set the credentials, list, [] on any failure
ListMessages(p) ==
    LET r == inv[p] IN
    /\ r.pc = "list"
    /\ creds' = Mailbox(r)
    /\ \E o \in {"ok", "fail"} :
         LET ids == ListResult(o, creds', r.maxResults)
             r1  == [StartCounts(r) EXCEPT !.ids = ids,
                              !.usedCreds = creds',
                              !.attempted = <<>>,
                              !.pre0 = [g \in GmailIds |->
                                          PreStatus(messages, classifications, g)],
                              !.listCount[Mailbox(r)] = @ + 1,
                              !.listFailed = IF o = "ok" THEN @ ELSE @ \cup {Mailbox(r)}]
         IN SetInv(p, BeginMsg(r1, 1, threads, messages, classifications))
    /\ UNCHANGED <<threads, messages, classifications, watermark, now, aux>>

\* gmailService.fetchMessage: the parsed message, or null on any failure
FetchMessage(p) ==
    LET r == inv[p] IN
    /\ r.pc = "fetch"
    /\ creds' = Mailbox(r)
    /\ \E o \in {"ok", "null"} :
         IF o = "ok" /\ \E i \in 1..Len(Inbox(creds')) : Inbox(creds')[i] = r.cur.gid
         THEN SetInv(p, [r EXCEPT !.pc = "findMsg", !.usedCreds = creds'])
         ELSE SetInv(p, FinishMsg(Failed([r EXCEPT !.usedCreds = creds']),
                                  "FetchFailed"))
    /\ UNCHANGED <<threads, messages, classifications, watermark, now, aux>>

(* ------------------------ handling one identifier ---------------------- *)

\* the per-message catch block leaves the loop
OnMessageErrorBreak(r) ==
    [FinishMsg(Failed(r), "Threw") EXCEPT !.idx = Len(r.ids)]

\* catch (msgError): log, go on with the next identifier
OnMessageError(r) ==
    FinishMsg(Failed(r), "Threw")

\* the loop takes the identifier it has just handled once more
NextIndexSame(r) == r.idx

\* the position the for-of iterator of messageIds moves to
NextIndex(r) == r.idx + 1

\* for-of advance: the next identifier of messageIds, or the loop ends
NextIdentifier(p) ==
    LET r == inv[p] IN
    /\ r.pc = "endMsg"
    /\ SetInv(p, BeginMsg(r, NextIndex(r), threads, messages, classifications))
    /\ UNCHANGED <<threads, messages, classifications, watermark, now, creds, aux>>

\* the existing-message branch is never taken
HasExistingNever(found) == FALSE

\* if (existingMessage)
HasExisting(found) == found # 0

\* messages .eq('gmail_message_id', messageId).single(); if (existingMessage)
FindExistingMessage(p) ==
    LET r == inv[p] IN
    /\ r.pc = "findMsg"
    /\ \E o \in StoreOutcomes :
         LET found == IF o = "ok" THEN FindMessage(messages, r.cur.gid) ELSE 0
             r1 == IF o = "ok" THEN r ELSE Failed(r)
         IN CASE o = "throw" ->
                   SetInv(p, OnMessageError(r))
              [] o # "throw" /\ HasExisting(found) ->
                   SetInv(p, [r1 EXCEPT !.pc = "findCls", !.existing = found,
                                        !.cur.lookup = "found"])
              [] o # "throw" /\ ~HasExisting(found) ->
                   SetInv(p, [r1 EXCEPT !.pc = "findThread",
                                        !.cur.lookup = "absent"])
    /\ UNCHANGED <<threads, messages, classifications, watermark, now, creds, aux>>

\* classifications .eq('message_id', existingMessage.id).single();
\* if (existingClassification) continue
FindExistingClassification(p) ==
    LET r == inv[p] IN
    /\ r.pc = "findCls"
    /\ \E o \in StoreOutcomes :
         LET found == IF o = "ok"
                      THEN FindClassification(classifications, r.existing) ELSE 0
             r1 == IF o = "ok" THEN r ELSE Failed(r)
         IN CASE o = "throw" ->
                   SetInv(p, OnMessageError(r))
              [] o # "throw" /\ found # 0 ->
                   SetInv(p, FinishMsg(r1, "AlreadyClassified"))
              [] o # "throw" /\ found = 0 ->
                   SetInv(p, [r1 EXCEPT !.pc = "classifyExisting"])
    /\ UNCHANGED <<threads, messages, classifications, watermark, now, creds, aux>>

\* geminiService.classifyEmail(existingMessage...) inside the inner try
ClassifyExisting(p) ==
    LET r == inv[p] IN
    /\ r.pc = "classifyExisting"
    /\ \E o \in {"ok", "throw"} :
         IF o = "ok"
         THEN SetInv(p, [r EXCEPT !.pc = "insClsExisting"])
         ELSE SetInv(p, FinishMsg(Failed(r), "ClassifyFailed"))
    /\ UNCHANGED <<threads, messages, classifications, watermark, now, creds, aux>>

\* what the awaited classifications insert of an existing message adds to
\* classified: the fleet handler counts once the await returns, whatever
\* error object it returned; the single-mailbox handler has no increment
ExistingCounts(r, eff) ==
    IF IsFleet(r) /\ eff # "throw" THEN 1 ELSE 0

\* classifications insert for the existing message, inner try, then continue
InsertClassificationExisting(p) ==
    LET r == inv[p] IN
    /\ r.pc = "insClsExisting"
    /\ \E o \in StoreOutcomes :
         LET eff == Effective(o, ClassificationInsertAllowed(messages, classifications,
                                                             r.existing))
             clss == IF eff = "ok"
                     THEN InsertRow(classifications, [msg |-> r.existing, via |-> "retro"])
                     ELSE classifications
             n  == ExistingCounts(r, eff)
             r1 == [r EXCEPT !.classified = @ + n, !.cur.dC = @ + n,
                             !.cur.dK = IF eff = "ok" THEN @ + 1 ELSE @,
                             !.cur.clsStored = (eff = "ok"),
                             !.cur.failed = IF o = "ok" THEN @ ELSE TRUE]
         IN /\ classifications' = clss
            /\ SetInv(p, FinishMsg(r1, IF eff = "ok" THEN "ClassifiedNow"
                                                    ELSE "ClassifyFailed"))
    /\ UNCHANGED <<threads, messages, watermark, now, creds, aux>>

\* threads .eq('mailbox_id').eq('gmail_thread_id').single(); if (existingThread)
FindExistingThread(p) ==
    LET r == inv[p] IN
    /\ r.pc = "findThread"
    /\ \E o \in StoreOutcomes :
         LET found == IF o = "ok"
                      THEN FindThread(threads, Mailbox(r), GmailThreadOf(r.cur.gid))
                      ELSE 0
             r1 == IF o = "ok" THEN r ELSE Failed(r)
         IN CASE o = "throw" ->
                   SetInv(p, OnMessageError(r))
              [] o # "throw" /\ found # 0 ->
                   SetInv(p, [r1 EXCEPT !.pc = "insMsg", !.threadId = found])
              [] o # "throw" /\ found = 0 ->
                   SetInv(p, [r1 EXCEPT !.pc = "insThread"])
    /\ UNCHANGED <<threads, messages, classifications, watermark, now, creds, aux>>

\* threads insert; if (threadError) continue / if (!threadId) continue
InsertThread(p) ==
    LET r == inv[p] IN
    /\ r.pc = "insThread"
    /\ \E o \in StoreOutcomes :
         LET eff == Effective(o, ThreadInsertAllowed(threads, Mailbox(r),
                                                     GmailThreadOf(r.cur.gid)))
             thrs == IF eff = "ok"
                     THEN InsertRow(threads, [mb |-> Mailbox(r),
                                              gtid |-> GmailThreadOf(r.cur.gid)])
                     ELSE threads
         IN /\ threads' = thrs
            /\ CASE eff = "ok" ->
                      SetInv(p, [r EXCEPT !.pc = "insMsg", !.threadId = Len(thrs),
                                          !.cur.dT = @ + 1])
                 [] eff = "err" ->
                      SetInv(p, FinishMsg(IF o = "ok" THEN r ELSE Failed(r),
                                          "ThreadFailed"))
                 [] eff = "throw" ->
                      SetInv(p, OnMessageError(r))
    /\ UNCHANGED <<messages, classifications, watermark, now, creds, aux>>

\* the new message is filed under the oldest thread of the store
MessageRowFirstThread(r) == [gid |-> r.cur.gid, thread |-> 1]

\* the row of the messages insert: thread_id: threadId, gmail_message_id
MessageRow(r) == [gid |-> r.cur.gid, thread |-> r.threadId]

\* messages insert; if (messageError) continue; processedCount++
InsertMessage(p) ==
    LET r == inv[p] IN
    /\ r.pc = "insMsg"
    /\ \E o \in StoreOutcomes :
         LET eff == Effective(o, MessageInsertAllowed(threads, messages,
                                                      MessageRow(r).thread,
                                                      MessageRow(r).gid))
             msgs == IF eff = "ok"
                     THEN InsertRow(messages, MessageRow(r))
                     ELSE messages
         IN /\ messages' = msgs
            /\ CASE eff = "ok" ->
                      SetInv(p, [r EXCEPT !.pc = "classifyNew", !.inserted = Len(msgs),
                                          !.processed = @ + 1,
                                          !.cur.dP = @ + 1, !.cur.dM = @ + 1])
                 [] eff = "err" ->
                      SetInv(p, FinishMsg(IF o = "ok" THEN r ELSE Failed(r),
                                          "InsertFailed"))
                 [] eff = "throw" ->
                      SetInv(p, OnMessageError(r))
    /\ UNCHANGED <<threads, classifications, watermark, now, creds, aux>>

\* a classifier failure ends the message loop
OnClassifyErrorBreak(r) ==
    [FinishMsg(Failed(r), "NotClassified") EXCEPT !.idx = Len(r.ids)]

\* catch (classifyError): log; the loop body ends for this identifier
OnClassifyError(r) ==
    FinishMsg(Failed(r), "NotClassified")

\* geminiService.classifyEmail(parsedMessage...) inside the inner try
ClassifyNew(p) ==
    LET r == inv[p] IN
    /\ r.pc = "classifyNew"
    /\ \E o \in {"ok", "throw"} :
         IF o = "ok"
         THEN SetInv(p, [r EXCEPT !.pc = "insClsNew"])
         ELSE SetInv(p, OnClassifyError(r))
    /\ UNCHANGED <<threads, messages, classifications, watermark, now, creds, aux>>

\* what the awaited classifications insert of a new message adds to
\* classified: the single-mailbox handler tests classificationError, the
\* fleet handler counts once the await returns
NewCounts(r, eff) ==
    IF IsFleet(r)
    THEN (IF eff # "throw" THEN 1 ELSE 0)
    ELSE (IF eff = "ok" THEN 1 ELSE 0)

\* classifications insert for the new message, inner try; end of loop body
InsertClassificationNew(p) ==
    LET r == inv[p] IN
    /\ r.pc = "insClsNew"
    /\ \E o \in StoreOutcomes :
         LET eff == Effective(o, ClassificationInsertAllowed(messages, classifications,
                                                             r.inserted))
             clss == IF eff = "ok"
                     THEN InsertRow(classifications, [msg |-> r.inserted, via |-> "ingest"])
                     ELSE classifications
             n  == NewCounts(r, eff)
             r1 == [r EXCEPT !.classified = @ + n, !.cur.dC = @ + n,
                             !.cur.dK = IF eff = "ok" THEN @ + 1 ELSE @,
                             !.cur.clsStored = (eff = "ok"),
                             !.cur.failed = IF o = "ok" THEN @ ELSE TRUE]
         IN /\ classifications' = clss
            /\ SetInv(p, FinishMsg(r1, "Inserted"))
    /\ UNCHANGED <<threads, messages, watermark, now, creds, aux>>

(* --------------------------- finishing a mailbox ----------------------- *)

\* results.push(entry), then the next mailbox of the loop or res.json
PushResult(r, entry) ==
    LET r1 == [r EXCEPT !.results = Append(@, entry)] IN
    IF r.mi < Len(r.mbs)
    THEN [r1 EXCEPT !.mi = @ + 1, !.pc = "list"]
    ELSE [r1 EXCEPT !.pc = "respond"]

\* the mailbox catch block ends the fleet loop
OnMailboxErrorAbort(r) ==
    [r EXCEPT !.results = Append(@, [mb |-> Mailbox(r), kind |-> "error"]),
              !.threw = @ \cup {Mailbox(r)}, !.pc = "respond"]

\* catch (mailboxError): push the error entry, go on with the next mailbox
OnMailboxError(r) ==
    PushResult([r EXCEPT !.threw = @ \cup {Mailbox(r)}],
               [mb |-> Mailbox(r), kind |-> "error"])

\* the entry of a mailbox whose loop and watermark update returned
CountsEntry(r) ==
    [mb |-> Mailbox(r), kind |-> "counts", total |-> Len(r.ids),
     processed |-> r.processed, classified |-> r.classified]

\* mailboxes .update({ last_synced_at: now }).eq('id', mailbox id)
UpdateWatermark(p) ==
    LET r == inv[p] IN
    /\ r.pc = "watermark"
    /\ \E o \in StoreOutcomes :
         LET r1 == [r EXCEPT !.wmCount[Mailbox(r)] = @ + 1,
                             !.wmAt[Mailbox(r)] = Len(r.attempted),
                             !.wmDone = IF o = "ok" THEN @ \cup {Mailbox(r)} ELSE @]
         IN /\ watermark' = IF o = "ok"
                            THEN [watermark EXCEPT ![Mailbox(r)] = now]
                            ELSE watermark
            /\ CASE o # "throw" /\ IsFleet(r) ->
                      SetInv(p, PushResult(r1, CountsEntry(r1)))
                 [] o # "throw" /\ ~IsFleet(r) ->
                      SetInv(p, [r1 EXCEPT !.pc = "respond"])
                 [] o = "throw" /\ IsFleet(r) ->
                      SetInv(p, OnMailboxError(r1))
                 [] o = "throw" /\ ~IsFleet(r) ->
                      SetInv(p, [r1 EXCEPT !.pc = "idle", !.threw = {Mailbox(r)},
                                   !.response = [kind |-> "error", status |-> 500]])
    /\ UNCHANGED <<threads, messages, classifications, now, creds, aux>>

\* res.json({ success: true, ... })
Respond(p) ==
    LET r == inv[p] IN
    /\ r.pc = "respond"
    /\ IF IsFleet(r)
       THEN SetInv(p, [r EXCEPT !.pc = "idle",
                         !.response = [kind |-> "results", results |-> r.results]])
       ELSE SetInv(p, [r EXCEPT !.pc = "idle",
                         !.response = [kind |-> "counts", total |-> Len(r.ids),
                                       processed |-> r.processed,
                                       classified |-> r.classified]])
    /\ UNCHANGED <<threads, messages, classifications, watermark, now, creds, aux>>

(* ---------------------------- specification ---------------------------- *)

\* the store and the sync routes after the server has started
SyncInit ==
    /\ threads = <<>>
    /\ messages = <<>>
    /\ classifications = <<>>
    /\ watermark = [m \in MailboxIds |-> 0]
    /\ now = 0
    /\ creds = "none"
    /\ inv = [p \in Procs |-> IdleInv]

Init ==
    /\ SyncInit
    /\ gem = NoCall
    /\ norm = NoCall
    /\ api = NoCall

Step(p) ==
    \/ StartSingle(p)
    \/ GetMailbox(p)
    \/ StartAll(p)
    \/ SelectMailboxes(p)
    \/ ListMessages(p)
    \/ FetchMessage(p)
    \/ FindExistingMessage(p)
    \/ FindExistingClassification(p)
    \/ ClassifyExisting(p)
    \/ InsertClassificationExisting(p)
    \/ FindExistingThread(p)
    \/ InsertThread(p)
    \/ InsertMessage(p)
    \/ ClassifyNew(p)
    \/ InsertClassificationNew(p)
    \/ NextIdentifier(p)
    \/ UpdateWatermark(p)
    \/ Respond(p)

\* sync requests served one after the other
Next == \E p \in SeqProcs : Step(p)

Spec == Init /\ [][Next]_vars

\* a step of an invocation that is under way: an awaited call returns, or
\* the handler goes on to its next statement
Continue(p) ==
    /\ inv[p].pc # "idle"
    /\ Step(p)

\* every call an invocation awaits returns, and the handler then runs on
SpecFair == Init /\ [][Next]_vars /\ \A p \in SeqProcs : WF_vars(Continue(p))

(* ====================== sync requests that recur ======================= *)
(* The owner of a mailbox asks for its sync again and again.  The runs are *)
(* the single-mailbox handler's; the clock stops at MaxRuns, it is read by *)
(* the watermark update alone.                                             *)

\* the mailboxes whose owner keeps asking
RetryMailboxes == {"m1", "m4"}

\* POST /mailbox/:mailboxId by the owner, with room for the whole inbox
StartRetry(p) ==
    /\ inv[p].pc = "idle"
    /\ \E m \in RetryMailboxes :
         SetInv(p, [IdleInv EXCEPT !.pc = "getMailbox", !.kind = "single",
                                   !.user = UserOf(m), !.reqMb = m,
                                   !.maxResults = MaxResultsBound])
    /\ now' = Min(now + 1, MaxRuns)
    /\ UNCHANGED <<threads, messages, classifications, watermark, creds, aux>>

\* no call the invocation has awaited (for its current identifier) failed
Succeeded(r) ==
    /\ ~r.cur.failed
    /\ r.listFailed = {}
    /\ r.threw = {}
    /\ r.response.kind # "error"

\* the provider, the classifier and the store fail in the earlier runs
\* only: the calls of a run started at clock MaxRuns succeed
Reliable == now >= MaxRuns

Granted(p) == Reliable => Succeeded(inv'[p])

StepRetry(p) ==
    \/ StartRetry(p)
    \/ GetMailbox(p) /\ Granted(p)
    \/ ListMessages(p) /\ Granted(p)
    \/ FetchMessage(p) /\ Granted(p)
    \/ FindExistingMessage(p) /\ Granted(p)
    \/ FindExistingClassification(p) /\ Granted(p)
    \/ ClassifyExisting(p) /\ Granted(p)
    \/ InsertClassificationExisting(p) /\ Granted(p)
    \/ FindExistingThread(p) /\ Granted(p)
    \/ InsertThread(p) /\ Granted(p)
    \/ InsertMessage(p) /\ Granted(p)
    \/ ClassifyNew(p) /\ Granted(p)
    \/ InsertClassificationNew(p) /\ Granted(p)
    \/ NextIdentifier(p) /\ Granted(p)
    \/ UpdateWatermark(p) /\ Granted(p)
    \/ Respond(p) /\ Granted(p)

NextRetry == \E p \in SeqProcs : StepRetry(p)

\* the owner of m asks for a sync
Asks(p, m) == StartRetry(p) /\ inv'[p].reqMb = m

\* every awaited call returns and the handler runs on; every mailbox is
\* synced again and again
SpecRetry ==
    /\ Init
    /\ [][NextRetry]_vars
    /\ \A p \in SeqProcs :
         /\ WF_vars(Continue(p) /\ NextRetry)
         /\ \A m \in RetryMailboxes : SF_vars(Asks(p, m) /\ NextRetry)

(* ===================== interleaved sync invocations ==================== *)
(* Two single-mailbox requests served by the one Node process: each runs   *)
(* up to its next await, then the other may run.  The provider calls are   *)
(* seen at their two ends, because both invocations use the one            *)
(* oauth2Client of config/gmail.ts.                                        *)

\* the credentials an awaited provider call is served with: those its own
\* invocation set on the shared client, or those the client holds when the
\* request is authorised
CallCredentials(r, held) == {Mailbox(r), held}

\* POST /mailbox/:mailboxId arrives from the owner of the mailbox, asking
\* for the largest listing, on a connection that has sent no request before
StartConc(p) ==
    /\ inv[p] = IdleInv
    /\ \E m \in MailboxIds :
         SetInv(p, [IdleInv EXCEPT !.pc = "getMailbox", !.kind = "single",
                                   !.user = UserOf(m), !.reqMb = m,
                                   !.maxResults = MaxResultsBound])
    /\ now' = now + 1
    /\ UNCHANGED <<threads, messages, classifications, watermark, creds, aux>>

\* getGmailClient(...) and the start of gmail.users.messages.list
ListCall(p) ==
    LET r == inv[p] IN
    /\ r.pc = "list"
    /\ creds' = Mailbox(r)
    /\ SetInv(p, [r EXCEPT !.pc = "listAwait"])
    /\ UNCHANGED <<threads, messages, classifications, watermark, now, aux>>

\* the awaited list call settles
ListReturn(p) ==
    LET r == inv[p] IN
    /\ r.pc = "listAwait"
    /\ \E o \in {"ok", "fail"}, c \in CallCredentials(r, creds) :
         LET ids == ListResult(o, c, r.maxResults)
             r1  == [StartCounts(r) EXCEPT !.ids = ids,
                              !.usedCreds = c,
                              !.attempted = <<>>,
                              !.pre0 = [g \in GmailIds |->
                                          PreStatus(messages, classifications, g)],
                              !.listCount[Mailbox(r)] = @ + 1,
                              !.listFailed = IF o = "ok" THEN @ ELSE @ \cup {Mailbox(r)}]
         IN SetInv(p, BeginMsg(r1, 1, threads, messages, classifications))
    /\ UNCHANGED <<threads, messages, classifications, watermark, now, creds, aux>>

\* getGmailClient(...) and the start of gmail.users.messages.get
FetchCall(p) ==
    LET r == inv[p] IN
    /\ r.pc = "fetch"
    /\ creds' = Mailbox(r)
    /\ SetInv(p, [r EXCEPT !.pc = "fetchAwait"])
    /\ UNCHANGED <<threads, messages, classifications, watermark, now, aux>>

\* the awaited get call settles
FetchReturn(p) ==
    LET r == inv[p] IN
    /\ r.pc = "fetchAwait"
    /\ \E o \in {"ok", "null"}, c \in CallCredentials(r, creds) :
         IF o = "ok" /\ \E i \in 1..Len(Inbox(c)) : Inbox(c)[i] = r.cur.gid
         THEN SetInv(p, [r EXCEPT !.pc = "findMsg", !.usedCreds = c])
         ELSE SetInv(p, FinishMsg(Failed([r EXCEPT !.usedCreds = c]),
                                  "FetchFailed"))
    /\ UNCHANGED <<threads, messages, classifications, watermark, now, creds, aux>>

StepConc(p) ==
    \/ StartConc(p)
    \/ GetMailbox(p)
    \/ ListCall(p)
    \/ ListReturn(p)
    \/ FetchCall(p)
    \/ FetchReturn(p)
    \/ FindExistingMessage(p)
    \/ FindExistingClassification(p)
    \/ ClassifyExisting(p)
    \/ InsertClassificationExisting(p)
    \/ FindExistingThread(p)
    \/ InsertThread(p)
    \/ InsertMessage(p)
    \/ ClassifyNew(p)
    \/ InsertClassificationNew(p)
    \/ NextIdentifier(p)
    \/ UpdateWatermark(p)
    \/ Respond(p)

\* either invocation takes its next step
NextConc == \E p \in Procs : StepConc(p)

SpecConc == Init /\ [][NextConc]_vars

(* ======================= classifier adapter ============================ *)
(* GeminiService (services/gemini.service.ts): the spam pre-filter, the    *)
(* call of the external model and the parsing of its answer.  An email     *)
(* text is the sequence of its words; a word is a maximal run of word      *)
(* characters, which is what \b ... \b of the code pattern delimits.       *)

\* the words emails are built from
Vocabulary == {"WHO", "handles", "thanks", "J4C5BVX", "6PZGMYD", "ORDER20261104"}

\* String.prototype.toLowerCase on a word
Lower(w) ==
    CASE w = "WHO" -> "who"
      [] w = "J4C5BVX" -> "j4c5bvx"
      [] w = "6PZGMYD" -> "6pzgmyd"
      [] w = "ORDER20261104" -> "order20261104"
      [] OTHER -> w

\* length of a word and the character classes it is made of
WordInfo(w) ==
    CASE Lower(w) = "who"           -> [len |-> 3,  letters |-> TRUE,  digits |-> FALSE]
      [] Lower(w) = "handles"       -> [len |-> 7,  letters |-> TRUE,  digits |-> FALSE]
      [] Lower(w) = "thanks"        -> [len |-> 6,  letters |-> TRUE,  digits |-> FALSE]
      [] Lower(w) = "j4c5bvx"       -> [len |-> 7,  letters |-> TRUE,  digits |-> TRUE]
      [] Lower(w) = "6pzgmyd"       -> [len |-> 7,  letters |-> TRUE,  digits |-> TRUE]
      [] Lower(w) = "order20261104" -> [len |-> 13, letters |-> TRUE,  digits |-> TRUE]

\* randomCodePattern = /\b[A-Z0-9]{6,8}\b/gi applied to one word
RandomCodePattern(w) == WordInfo(w).len \in 6..8

\* str.match(randomCodePattern): the matches in order (null = none)
MatchCodes(text) == SelectSeq(text, RandomCodePattern)

\* the template string that joins subject and body, then toLowerCase()
SpamText(subject, body) ==
    LET t == subject \o body IN [i \in 1..Len(t) |-> Lower(t[i])]

\* spamPhrases, each phrase as the sequence of its words
SpamPhrases ==
    {<<"who", "should", "i", "call">>, <<"who", "do", "i", "speak", "with">>,
     <<"who", "handles">>, <<"who", "is", "responsible", "for">>}

\* text.includes(phrase)
Includes(text, phrase) ==
    \E i \in 0..(Len(text) - Len(phrase)) :
       \A j \in 1..Len(phrase) : text[i + j] = phrase[j]

\* the matches with repetitions of a token removed
DistinctCodes(codes) == {codes[i] : i \in 1..Len(codes)}

\* codes.length of pattern 1
CodeCount(codes) == Len(codes)

\* GeminiService.detectSpamPatterns
detectSpamPatterns(subject, body) ==
    LET text == SpamText(subject, body)
        codes == MatchCodes(text)
        subjectCodes == MatchCodes(subject)
        hasSpamPhrase == \E ph \in SpamPhrases : Includes(text, ph)
    IN  IF CodeCount(codes) >= 2
        THEN [isSpam |-> TRUE, rule |-> 1, reason |-> SubSeq(codes, 1, 2)]
        ELSE IF Len(subjectCodes) >= 1
        THEN [isSpam |-> TRUE, rule |-> 2, reason |-> <<subjectCodes[1]>>]
        ELSE IF hasSpamPhrase /\ Len(codes) >= 1
        THEN [isSpam |-> TRUE, rule |-> 3, reason |-> <<codes[1]>>]
        ELSE [isSpam |-> FALSE, rule |-> 0, reason |-> <<>>]

\* a piece of the text a model candidate carries
Tok(t) == [t |-> t, k |-> "", v |-> "", n |-> 0]

\* "key": "string value" inside a JSON object
KV(k, v) == [t |-> "kv", k |-> k, v |-> v, n |-> 0]

\* "key": number inside a JSON object, the number in hundredths
KN(k, n) == [t |-> "kv", k |-> k, v |-> "", n |-> n]

\* the two replace calls that take the opening (with json) and the closing
\* code fence of a markdown block out of the text, and trim()
StripFences(text) ==
    LET NotFence(tok) == tok.t \notin {"fenceJson", "fence"}
    IN  SelectSeq(text, NotFence)

\* cleanText.match(/\{[\s\S]*\}/): from the first "{" to the last "}"
\* behind it; the whole text when there is no such match
ExtractJson(clean) ==
    LET opens == {i \in 1..Len(clean) : clean[i].t = "{"}
        first == CHOOSE i \in opens : \A j \in opens : i <= j
        closes == {i \in 1..Len(clean) : clean[i].t = "}" /\ i > first}
        last == CHOOSE i \in closes : \A j \in closes : i >= j
    IN  IF opens = {} THEN clean
        ELSE IF closes = {} THEN clean
        ELSE SubSeq(clean, first, last)

\* the text is one JSON object
IsJsonObject(js) ==
    /\ Len(js) >= 2
    /\ js[1].t = "{"
    /\ js[Len(js)].t = "}"
    /\ \A i \in 2..(Len(js) - 1) : js[i].t = "kv"

\* the text is one JSON value that is no object
IsJsonScalar(js) == Len(js) = 1 /\ js[1].t \in {"null", "number"}

\* JSON.parse(cleanText) returns instead of throwing SyntaxError
JsonValid(js) == IsJsonObject(js) \/ IsJsonScalar(js)

\* parsed[key]: the last member of that name, or undefined
Member(js, key) ==
    LET at == {i \in 1..Len(js) : js[i].t = "kv" /\ js[i].k = key}
        i == CHOOSE x \in at : \A y \in at : x >= y
    IN  IF at = {} THEN [def |-> FALSE, v |-> "", n |-> 0]
        ELSE [def |-> TRUE, v |-> js[i].v, n |-> js[i].n]

\* parsed.key || fallback, for a string field
OrString(m, fallback) == IF m.def /\ m.v # "" THEN m.v ELSE fallback

\* parsed.key || fallback, for a number field
OrNumber(m, fallback) == IF m.def /\ m.n # 0 THEN m.n ELSE fallback

\* the result a text that fails to parse gets when it is given the field
\* defaults of a parsed answer
DefaultedResult ==
    [sentiment |-> "neutral", interest_level |-> "none",
     summary |-> "No summary available",
     recommended_action |-> "Review manually", category |-> "other",
     confidence_score |-> 50]

\* the result of the catch branch of parseGeminiResponse
DegradedResult ==
    [sentiment |-> "neutral", interest_level |-> "none",
     summary |-> "Failed to analyze email - Invalid AI response format",
     recommended_action |-> "Review manually", category |-> "other",
     confidence_score |-> 0]

\* GeminiService.parseGeminiResponse; confidence_score in hundredths
parseGeminiResponse(text) ==
    LET cleanText == ExtractJson(StripFences(text))
    IN  IF ~JsonValid(cleanText) THEN DegradedResult
        ELSE IF cleanText[1].t = "null" THEN DegradedResult
        ELSE [sentiment |-> OrString(Member(cleanText, "sentiment"), "neutral"),
              interest_level |->
                  OrString(Member(cleanText, "interest_level"), "none"),
              summary |->
                  OrString(Member(cleanText, "summary"), "No summary available"),
              recommended_action |->
                  OrString(Member(cleanText, "recommended_action"),
                           "Review manually"),
              category |-> OrString(Member(cleanText, "category"), "other"),
              confidence_score |->
                  OrNumber(Member(cleanText, "confidence_score"), 50)]

\* the result classifyEmail returns for an email the pre-filter calls spam
SpamResult ==
    [sentiment |-> "spam", interest_level |-> "none",
     summary |-> "Spam detected",
     recommended_action |-> "Mark as spam and ignore", category |-> "spam",
     confidence_score |-> 95]

\* no result yet
NoResult ==
    [sentiment |-> "", interest_level |-> "", summary |-> "",
     recommended_action |-> "", category |-> "", confidence_score |-> 0]

\* CHECK (sentiment IN ...) of classifications
SentimentValues ==
    {"positive", "warm", "neutral", "negative", "auto_reply", "out_of_office",
     "spam"}

\* CHECK (interest_level IN ...) of classifications
InterestValues == {"high", "medium", "low", "none"}

\* the CHECK constraints of classifications on an inserted row
ClassificationCheck(result) ==
    /\ result.sentiment \in SentimentValues
    /\ result.interest_level \in InterestValues
    /\ result.confidence_score >= 0
    /\ result.confidence_score <= 100

\* the sequences of at most n elements of S
SeqsUpTo(S, n) == UNION {[1..k -> S] : k \in 0..n}

\* the JSON objects the model is taken to answer with
AnswerObjects ==
    {<<Tok("{")>> \o s \o i \o c \o <<Tok("}")>> :
        s \in {<<>>, <<KV("sentiment", "positive")>>,
               <<KV("sentiment", "angry")>>, <<KV("sentiment", "")>>},
        i \in {<<>>, <<KV("interest_level", "high")>>,
               <<KV("interest_level", "extreme")>>},
        c \in {<<>>, <<KN("confidence_score", 0)>>,
               <<KN("confidence_score", 90)>>, <<KN("confidence_score", 700)>>}}

\* what the model may write where the JSON object is asked for
AnswerCores ==
    AnswerObjects \cup
    {<<Tok("prose")>>,
     <<Tok("{"), Tok("prose"), Tok("}")>>,
     <<Tok("{"), KV("sentiment", "warm")>>,
     <<Tok("{"), KV("sentiment", "warm"), Tok("}"), Tok("prose"),
       Tok("{"), KV("interest_level", "low"), Tok("}")>>,
     <<Tok("number")>>,
     <<Tok("null")>>,
     <<>>}

\* the candidate texts: an answer bare, fenced, and inside a sentence
AnswerTexts ==
    {pre \o core \o post :
        core \in AnswerCores,
        pre \in {<<>>, <<Tok("fenceJson")>>, <<Tok("prose"), Tok("fence")>>},
        post \in {<<>>, <<Tok("fence")>>}}

\* what the call of the external model comes back with
ApiResponses ==
    {[kind |-> k, text |-> <<>>] :
        k \in {"error", "noCandidates", "noContent", "noText"}}
    \cup {[kind |-> "text", text |-> t] : t \in AnswerTexts}

\* classifyEmail has been called with this email
GemCall(subject, body) ==
    [pc |-> "called", subject |-> subject, body |-> body, apiCalls |-> 0,
     spamCheck |-> [isSpam |-> FALSE, rule |-> 0, reason |-> <<>>],
     resp |-> "", text |-> <<>>, result |-> NoResult]

\* the pre-filter never stops classifyEmail
SpamShortCircuitNever(spamCheck) == FALSE

\* if (spamCheck.isSpam) of classifyEmail
SpamShortCircuit(spamCheck) == spamCheck.isSpam

\* classifyEmail up to its await: the pre-filter, then the request
ClassifyEmail ==
    /\ gem.pc = "called"
    /\ LET spamCheck == detectSpamPatterns(gem.subject, gem.body)
       IN  IF SpamShortCircuit(spamCheck)
           THEN gem' = [gem EXCEPT !.pc = "returned", !.spamCheck = spamCheck,
                                   !.result = SpamResult]
           ELSE gem' = [gem EXCEPT !.pc = "awaitApi", !.spamCheck = spamCheck,
                                   !.apiCalls = @ + 1]
    /\ UNCHANGED <<syncVars, norm, api>>

\* classifyEmail after axios.post has settled
ApiResponds ==
    /\ gem.pc = "awaitApi"
    /\ \E resp \in ApiResponses :
          IF resp.kind = "text"
          THEN gem' = [gem EXCEPT !.pc = "returned", !.resp = resp.kind,
                                  !.text = resp.text,
                                  !.result = parseGeminiResponse(resp.text)]
          ELSE gem' = [gem EXCEPT !.pc = "raised", !.resp = resp.kind]
    /\ UNCHANGED <<syncVars, norm, api>>

\* the sync route inserts the returned result into classifications
StoreResult ==
    /\ gem.pc = "returned"
    /\ gem' = [gem EXCEPT !.pc = IF ClassificationCheck(gem.result)
                                 THEN "stored" ELSE "rejected"]
    /\ UNCHANGED <<syncVars, norm, api>>

\* the emails classifyEmail is examined on
InitClassify ==
    /\ SyncInit
    /\ norm = NoCall
    /\ api = NoCall
    /\ \E subject \in SeqsUpTo(Vocabulary, MaxSubjectWords) :
          \E body \in SeqsUpTo(Vocabulary, MaxBodyWords) :
             gem = GemCall(subject, body)

NextClassify == ClassifyEmail \/ ApiResponds \/ StoreResult

SpecClassify == InitClassify /\ [][NextClassify]_vars

(* ======================= message normalizer ============================ *)
(* GmailService.parseMessage and extractBody: the body of a possibly       *)
(* nested multipart payload and the received timestamp.                    *)

\* Buffer.from(data, 'base64').toString('utf-8')
Decode(data) ==
    CASE data = "QQ==" -> "A"
      [] data = "Qg==" -> "B"
      [] data = "Qw==" -> "C"
      [] data = "RA==" -> "D"
      [] OTHER -> ""

\* a part that carries data and has no parts of its own
Leaf(mimeType, data) == [mimeType |-> mimeType, data |-> data, parts |-> <<>>]

\* a part made of parts
Multipart(parts) == [mimeType |-> "multipart", data |-> "", parts |-> parts]

\* the leaves payloads are built from; the last one has an empty body
Leaves ==
    {Leaf("text/plain", "QQ=="), Leaf("text/plain", "Qg=="),
     Leaf("text/html", "Qw=="), Leaf("text/html", "RA=="),
     Leaf("text/plain", "")}

\* the non-empty sequences of at most n elements of S
PartLists(S, n) == UNION {[1..k -> S] : k \in 1..n}

\* the parts that may stand directly under the payload
NestedParts == Leaves \cup {Multipart(ps) : ps \in PartLists(Leaves, MaxNestedParts)}

\* the payloads of the provider messages explored
Payloads == Leaves \cup {Multipart(ps) : ps \in PartLists(NestedParts, MaxParts)}

\* the values of the date header: absent, well formed, not a date
DateHeaders == {"", "Wed, 04 Nov 2026 10:00:00 +0000", "32 Foo 2026"}

\* new Date(dateStr): an Invalid Date for a string that is no date
NewDate(dateStr) ==
    IF dateStr = "Wed, 04 Nov 2026 10:00:00 +0000"
    THEN [valid |-> TRUE, t |-> 7]
    ELSE [valid |-> FALSE, t |-> 0]

\* Date.prototype.toJSON, as the store client serialises a Date: the
\* instant, or null for an Invalid Date
ToJSON(date) == IF date.valid THEN <<"iso", date.t>> ELSE <<"null">>

\* nothing extracted
NoBody == [bodyPlain |-> "", bodyHtml |-> ""]

\* part.mimeType === mimeType && part.body?.data
HasData(part, mimeType) == part.mimeType = mimeType /\ part.data # ""

RECURSIVE extractBody(_)
RECURSIVE ScanParts(_, _, _)

\* the for loop of extractBody over payload.parts, from part i on
ScanParts(parts, i, acc) ==
    IF i > Len(parts) THEN acc
    ELSE LET part == parts[i]
             nested == extractBody(part)
         IN  ScanParts(parts, i + 1,
                IF HasData(part, "text/plain")
                THEN [acc EXCEPT !.bodyPlain = Decode(part.data)]
                ELSE IF HasData(part, "text/html")
                THEN [acc EXCEPT !.bodyHtml = Decode(part.data)]
                ELSE IF part.parts # <<>>
                THEN [bodyPlain |-> IF acc.bodyPlain = ""
                                    THEN nested.bodyPlain ELSE acc.bodyPlain,
                      bodyHtml |-> IF acc.bodyHtml = ""
                                   THEN nested.bodyHtml ELSE acc.bodyHtml]
                ELSE acc)

\* GmailService.extractBody
extractBody(payload) ==
    IF HasData(payload, "text/plain")
    THEN [bodyPlain |-> Decode(payload.data), bodyHtml |-> ""]
    ELSE IF HasData(payload, "text/html")
    THEN [bodyPlain |-> "", bodyHtml |-> Decode(payload.data)]
    ELSE IF payload.parts # <<>>
    THEN ScanParts(payload.parts, 1, NoBody)
    ELSE NoBody

\* receivedAt: dateStr ? new Date(dateStr) : new Date()
ReceivedAt(dateStr, clock) ==
    IF dateStr # "" THEN NewDate(dateStr) ELSE [valid |-> TRUE, t |-> clock]

\* fetchMessage has the provider message and is about to parse it
NormCall(payload, dateStr) ==
    [pc |-> "fetched", payload |-> payload, dateStr |-> dateStr,
     bodyPlain |-> "", bodyHtml |-> "",
     receivedAt |-> [valid |-> FALSE, t |-> 0],
     last_message_at |-> <<>>, received_at |-> <<>>]

\* GmailService.parseMessage
ParseMessage ==
    /\ norm.pc = "fetched"
    /\ LET body == extractBody(norm.payload)
       IN  norm' = [norm EXCEPT !.pc = "parsed",
                                !.bodyPlain = body.bodyPlain,
                                !.bodyHtml = body.bodyHtml,
                                !.receivedAt = ReceivedAt(norm.dateStr, now)]
    /\ UNCHANGED <<syncVars, gem, api>>

\* the thread insert of the sync route; last_message_at may be null
StoreThread ==
    /\ norm.pc = "parsed"
    /\ norm' = [norm EXCEPT !.pc = "threadStored",
                            !.last_message_at = ToJSON(norm.receivedAt)]
    /\ UNCHANGED <<syncVars, gem, api>>

\* the message insert of the sync route; received_at is NOT NULL
StoreMessage ==
    /\ norm.pc = "threadStored"
    /\ norm' = [norm EXCEPT !.pc = IF ToJSON(norm.receivedAt) = <<"null">>
                                   THEN "messageRejected" ELSE "messageStored",
                            !.received_at = ToJSON(norm.receivedAt)]
    /\ UNCHANGED <<syncVars, gem, api>>

\* the provider messages parseMessage is examined on
InitNormalize ==
    /\ SyncInit
    /\ gem = NoCall
    /\ api = NoCall
    /\ \E payload \in Payloads : \E dateStr \in DateHeaders :
          norm = NormCall(payload, dateStr)

NextNormalize == ParseMessage \/ StoreThread \/ StoreMessage

SpecNormalize == InitNormalize /\ [][NextNormalize]_vars

(* ------------------------------- properties ---------------------------- *)

\* the rows of a table that satisfy a condition on a column
MessagesOf(gid) == {i \in 1..Len(messages) : messages[i].gid = gid}

ClassificationsOf(mid) == {i \in 1..Len(classifications) : classifications[i].msg = mid}

\* C1: the store holds at most one Message row per provider message id, and
\* a Message row is inserted only in a handling whose existence lookup on
\* that provider message id returned no row
C1_OneMessagePerProviderId ==
    /\ \A g \in GmailIds : Cardinality(MessagesOf(g)) <= 1
    /\ \A p \in Procs :
         inv[p].cur.dM > 0 =>
           /\ inv[p].cur.lookup = "absent"
           /\ messages[inv[p].inserted].gid = inv[p].cur.gid

\* a message that is already stored is listed again, its existence lookup
\* fails and the insert that follows is rejected
C1_Witness ==
    \E p \in Procs :
      /\ inv[p].pc = "endMsg"
      /\ inv[p].cur.pre # "absent"
      /\ inv[p].cur.lookup = "absent"
      /\ inv[p].cur.status = "InsertFailed"
      /\ Cardinality(MessagesOf(inv[p].cur.gid)) = 1

\* C2: every Message has at most one Classification, whether it was written
\* at the message's first ingestion or retroactively by a later run
C2_OneClassificationPerMessage ==
    \A m \in 1..Len(messages) : Cardinality(ClassificationsOf(m)) <= 1

\* the store holds a classification of either origin
C2_Witness ==
    /\ \E i \in 1..Len(classifications) : classifications[i].via = "ingest"
    /\ \E i \in 1..Len(classifications) : classifications[i].via = "retro"

\* C3: in a run over a mailbox, a listed message that an earlier run on this
\* mailbox stored and classified adds nothing to processed, gets no Thread,
\* Message or Classification row, and adds nothing to classified
C3_SecondRunIdempotent ==
    \A p \in Procs :
      (inv[p].pc = "endMsg" /\ inv[p].cur.pre = "classified" /\ inv[p].cur.own) =>
        /\ inv[p].cur.dP = 0
        /\ inv[p].cur.dT = 0 /\ inv[p].cur.dM = 0 /\ inv[p].cur.dK = 0
        /\ inv[p].cur.dC = 0

\* the part of C3 that the handlers keep: no count of processed and no row
C3_NoRowsForHandledMessages ==
    \A p \in Procs :
      (inv[p].pc = "endMsg" /\ inv[p].cur.pre = "classified" /\ inv[p].cur.own) =>
        /\ inv[p].cur.dP = 0
        /\ inv[p].cur.dT = 0 /\ inv[p].cur.dM = 0 /\ inv[p].cur.dK = 0

\* C4: a message stored without a Classification, handled with no failing
\* call or with a successful Classification insert, takes the ClassifiedNow
\* path: exactly one Classification row for it afterwards, no new Message
\* row and no new Thread row
C4_ClassifiedNowPath ==
    \A p \in Procs :
      (/\ inv[p].pc = "endMsg"
       /\ inv[p].cur.pre = "unclassified"
       /\ (~inv[p].cur.failed \/ inv[p].cur.clsStored)) =>
        /\ inv[p].cur.status = "ClassifiedNow"
        /\ inv[p].cur.dK = 1
        /\ Cardinality(MessagesOf(inv[p].cur.gid)) = 1
        /\ \A m \in MessagesOf(inv[p].cur.gid) : Cardinality(ClassificationsOf(m)) = 1
        /\ inv[p].cur.dM = 0
        /\ inv[p].cur.dT = 0

\* a stored, unclassified message has just been classified retroactively
C4_Witness ==
    \E p \in Procs :
      /\ inv[p].pc = "endMsg"
      /\ inv[p].cur.pre = "unclassified"
      /\ ~inv[p].cur.failed
      /\ inv[p].cur.status = "ClassifiedNow"
      /\ \E i \in 1..Len(classifications) :
           /\ classifications[i].via = "retro"
           /\ messages[classifications[i].msg].gid = inv[p].cur.gid

\* C6: in both handlers a ClassifiedNow message adds 1 to classified and 0
\* to processed, and an AlreadyClassified message adds 0 to both
C6_ExistingMessageCounters ==
    \A p \in Procs :
      inv[p].pc = "endMsg" =>
        /\ inv[p].cur.status = "ClassifiedNow" =>
             (inv[p].cur.dC = 1 /\ inv[p].cur.dP = 0)
        /\ inv[p].cur.status = "AlreadyClassified" =>
             (inv[p].cur.dC = 0 /\ inv[p].cur.dP = 0)

\* C7: in both handlers a newly inserted message adds exactly 1 to processed,
\* and adds 1 to classified only if its Classification row was stored
C7_NewMessageCounters ==
    \A p \in Procs :
      (inv[p].pc = "endMsg" /\ inv[p].cur.dM = 1) =>
        /\ inv[p].cur.dP = 1
        /\ inv[p].cur.dC <= 1
        /\ inv[p].cur.dC = 1 => inv[p].cur.clsStored

\* the handling of an identifier is under way or has just ended
InLoop(r) ==
    r.pc \in {"fetch", "findMsg", "findCls", "classifyExisting", "insClsExisting",
              "findThread", "insThread", "insMsg", "classifyNew", "insClsNew",
              "endMsg"}

\* the mailbox loop of the invocation is past its message loop
PastLoop(r) == r.mi > 0 /\ r.pc \in {"watermark", "respond", "idle"}

\* the outcome of a handling in which no awaited call fails
Expected(pre) ==
    CASE pre = "absent" -> "Inserted"
      [] pre = "unclassified" -> "ClassifiedNow"
      [] pre = "classified" -> "AlreadyClassified"

\* C5: a failure while handling one listed message skips only that message:
\* the identifiers are attempted one by one in list order, whatever failed;
\* a message none of whose own calls fails ends with the outcome that the
\* store held for it when the run listed the mailbox; and the single-mailbox
\* call answers with its counts unless something outside the message loop
\* (the mailbox lookup, the watermark update) threw
C5_FailureSkipsOnlyThatMessage ==
    \A p \in Procs :
      LET r == inv[p] IN
      /\ InLoop(r) =>
           /\ r.cur.gid = r.ids[r.idx]
           /\ r.attempted = SubSeq(r.ids, 1, IF r.pc = "endMsg" THEN r.idx ELSE r.idx - 1)
           /\ r.cur.pre = r.pre0[r.cur.gid]
      /\ (r.pc = "endMsg" /\ ~r.cur.failed) => r.cur.status = Expected(r.cur.pre)
      /\ PastLoop(r) => r.attempted = r.ids
      /\ (r.pc = "idle" /\ r.kind = "single" /\ r.mi > 0 /\ r.threw = {}) =>
           /\ r.response.kind = "counts"
           /\ r.response.total = Len(r.ids)
           /\ r.response.processed = r.processed

\* the first of two listed messages failed and left nothing stored, the
\* second one was handled and inserted all the same
C5_Witness ==
    \E p \in Procs :
      /\ inv[p].pc = "endMsg"
      /\ inv[p].idx = 2
      /\ inv[p].pre0[inv[p].ids[1]] = "absent"
      /\ MessagesOf(inv[p].ids[1]) = {}
      /\ ~inv[p].cur.failed
      /\ inv[p].cur.status = "Inserted"
      /\ inv[p].processed = 1

\* C8: in every sync run of a mailbox the last_synced_at update is issued
\* exactly once, after every listed identifier has been attempted and before
\* the response or result entry of that mailbox, whatever messages failed;
\* an update the store accepts sets the watermark to the time of the run
C8_WatermarkOncePerRun ==
    \A p \in Procs :
      LET r == inv[p] IN
      /\ \A m \in MailboxIds :
           /\ r.wmCount[m] <= 1
           /\ r.wmCount[m] = 1 => r.listCount[m] = 1
           /\ m \in r.wmDone => (r.wmCount[m] = 1 /\ watermark[m] = now)
      /\ (InLoop(r) \/ r.pc = "watermark") => r.wmCount[Mailbox(r)] = 0
      /\ (r.mi > 0 /\ r.pc = "watermark") => r.attempted = r.ids
      /\ (r.mi > 0 /\ ~IsFleet(r) /\ r.pc \in {"respond", "idle"}) =>
           /\ r.wmCount[Mailbox(r)] = 1
           /\ r.wmAt[Mailbox(r)] = Len(r.ids)
      /\ \A i \in 1..Len(r.results) :
           /\ r.wmCount[r.results[i].mb] = 1
           /\ r.results[i].kind = "counts" =>
                r.wmAt[r.results[i].mb] = r.results[i].total

\* a run in which both listed messages failed has answered with its counts
\* and the watermark of its mailbox carries the time of this run
C8_Witness ==
    \E p \in Procs :
      /\ inv[p].pc = "idle"
      /\ inv[p].response.kind = "counts"
      /\ inv[p].response.total = 2
      /\ inv[p].response.processed = 0
      /\ Len(messages) = 0
      /\ inv[p].wmCount[inv[p].reqMb] = 1
      /\ watermark[inv[p].reqMb] = now

C10_FleetIsolation ==
    \A p \in Procs :
      LET r == inv[p] IN
      IsFleet(r) =>
        /\ r.mi > 0 =>
             /\ {r.mbs[i] : i \in 1..Len(r.mbs)} = Selected(r.user)
             /\ Len(r.mbs) = Cardinality(Selected(r.user))
        /\ \A i \in 1..Len(r.results) :
             /\ r.results[i].mb = r.mbs[i]
             /\ r.listCount[r.mbs[i]] = 1
             /\ r.results[i].kind = "error" <=> r.mbs[i] \in r.threw
             /\ r.results[i].kind \in {"error", "counts"}
        /\ ((r.mi > 0 /\ r.pc = "watermark") \/ InLoop(r)) =>
             Len(r.results) = r.mi - 1
        /\ \A m \in MailboxIds :
             r.listCount[m] = 1 => \E i \in 1..r.mi : r.mbs[i] = m
        /\ (r.mi > 0 /\ r.pc \in {"respond", "idle"}) => Len(r.results) = Len(r.mbs)
        /\ (r.pc = "idle" /\ r.response.kind = "results") =>
             /\ r.response.results = r.results
             /\ Len(r.results) = Cardinality(Selected(r.user))

\* the first mailbox of a fleet run threw and got the error marker, the
\* second one was synced and got its counts
C10_Witness ==
    \E p \in Procs :
      /\ inv[p].pc = "idle"
      /\ inv[p].response.kind = "results"
      /\ Len(inv[p].response.results) = 2
      /\ inv[p].response.results[1].kind = "error"
      /\ inv[p].response.results[2].kind = "counts"
      /\ inv[p].listCount[inv[p].response.results[2].mb] = 1

(* ----------------------- classifier adapter claims --------------------- *)

\* classifyEmail has come back to its caller with a result
Returned == gem.pc \in {"returned", "stored", "rejected"}

\* the candidate text is no JSON once fences and surrounding words are gone
Unparseable(text) == ~JsonValid(ExtractJson(StripFences(text)))

\* C11: when the pre-filter declares an email spam, classifyEmail returns
\* the synthetic result (spam, none, 0.95, "Mark as spam and ignore") and
\* has made no call of the external model; the model is called only for
\* emails the pre-filter declares not spam.
C11_SpamShortCircuit ==
    gem.pc \notin {"none", "called"} =>
       /\ gem.spamCheck = detectSpamPatterns(gem.subject, gem.body)
       /\ gem.apiCalls > 0 => ~gem.spamCheck.isSpam
       /\ gem.spamCheck.isSpam =>
             /\ Returned
             /\ gem.apiCalls = 0
             /\ gem.result.sentiment = "spam"
             /\ gem.result.interest_level = "none"
             /\ gem.result.confidence_score = 95
             /\ gem.result.recommended_action = "Mark as spam and ignore"

\* an email declared spam has been answered without a call of the model
C11_Witness ==
    /\ gem.pc = "returned"
    /\ gem.spamCheck.isSpam
    /\ gem.apiCalls = 0
    /\ gem.result = SpamResult

\* C12: when the model's candidate text cannot be parsed as JSON,
\* classifyEmail does not raise: it returns neutral / none / confidence 0 /
\* "Review manually", and that degraded result is accepted by the store.
C12_DegradeNotFail ==
    (gem.pc # "none" /\ gem.resp = "text" /\ Unparseable(gem.text)) =>
       /\ Returned
       /\ gem.pc # "rejected"
       /\ gem.result.sentiment = "neutral"
       /\ gem.result.interest_level = "none"
       /\ gem.result.confidence_score = 0
       /\ gem.result.recommended_action = "Review manually"

\* the degraded result of an answer that is no JSON has been stored
C12_Witness ==
    /\ gem.pc = "stored"
    /\ gem.resp = "text"
    /\ gem.text # <<>>
    /\ Unparseable(gem.text)
    /\ gem.result = DegradedResult

\* rule 1 as the claim words it: two or more distinct matches in the text
Rule1Distinct(subject, body) ==
    Cardinality(DistinctCodes(MatchCodes(SpamText(subject, body)))) >= 2

\* rule 2: the subject alone holds a match
Rule2Subject(subject) == Len(MatchCodes(subject)) >= 1

\* rule 3: one of the four phrases and at least one match in the text
Rule3Phrase(subject, body) ==
    /\ \E ph \in SpamPhrases : Includes(SpamText(subject, body), ph)
    /\ Len(MatchCodes(SpamText(subject, body))) >= 1

\* C16: the pre-filter answers isSpam = true exactly when (1) subject and
\* body hold two or more distinct code tokens, or (2) the subject holds a
\* code token, or (3) the text holds one of the four phrases and a code
\* token; one token repeated in the body alone is not spam.
C16_ThreeRules ==
    gem.pc \notin {"none", "called"} =>
       (gem.spamCheck.isSpam <=>
           \/ Rule1Distinct(gem.subject, gem.body)
           \/ Rule2Subject(gem.subject)
           \/ Rule3Phrase(gem.subject, gem.body))

\* the words of an email
WordsOf(subject, body) ==
    {subject[i] : i \in 1..Len(subject)} \cup {body[i] : i \in 1..Len(body)}

\* C17: only a token of 6 to 8 characters that mixes letters and digits is
\* a code token; an email without such a token is never declared spam.
C17_NoCodeTokenNoSpam ==
    (/\ gem.pc \notin {"none", "called"}
     /\ \A w \in WordsOf(gem.subject, gem.body) :
           ~(WordInfo(w).len \in 6..8 /\ WordInfo(w).letters
             /\ WordInfo(w).digits))
    => ~gem.spamCheck.isSpam

\* C18: every result classifyEmail returns has its sentiment among the
\* seven values and its interest among the four values of the taxonomy; a
\* value outside them in the model's JSON is never passed through.
C18_TaxonomyEnforced ==
    Returned =>
       /\ gem.result.sentiment \in SentimentValues
       /\ gem.result.interest_level \in InterestValues

(* ----------------------- message normalizer claims --------------------- *)

RECURSIVE DataInOrder(_, _)
\* the data of the parts of one type that carry data, in depth-first order
DataInOrder(payload, mimeType) ==
    LET RECURSIVE Over(_, _)
        Over(parts, i) ==
            IF i > Len(parts) THEN <<>>
            ELSE DataInOrder(parts[i], mimeType) \o Over(parts, i + 1)
    IN  IF HasData(payload, mimeType) THEN <<payload.data>>
        ELSE Over(payload.parts, 1)

\* the body first-found-wins gives: the first part of the type, decoded
FirstFound(payload, mimeType) ==
    IF DataInOrder(payload, mimeType) = <<>> THEN ""
    ELSE Decode(DataInOrder(payload, mimeType)[1])

\* C19: body extraction is first-found-wins per type: the plain body is the
\* first text/plain part in depth-first order and the html body the first
\* text/html part; no later sibling and no deeper part overwrites it.
C19_FirstFoundWins ==
    norm.pc \notin {"none", "fetched"} =>
       /\ norm.bodyPlain = FirstFound(norm.payload, "text/plain")
       /\ norm.bodyHtml = FirstFound(norm.payload, "text/html")

\* C20: the received timestamp is always valid: with the date header absent
\* or unparseable the current time is used, so no invalid or null timestamp
\* reaches the thread insert or the message insert.
C20_ReceivedAtValid ==
    /\ norm.pc \notin {"none", "fetched"} => norm.receivedAt.valid
    /\ norm.pc \in {"threadStored", "messageStored", "messageRejected"} =>
          norm.last_message_at # <<"null">>
    /\ norm.pc \in {"messageStored", "messageRejected"} =>
          norm.received_at # <<"null">>

(* ----------------------------- sync run claims -------------------------- *)

\* the state of the per-mailbox state machine a handler position belongs to
PhaseOf(pc) ==
    CASE pc = "idle" -> "Idle"
      [] pc \in {"getMailbox", "selectMailboxes", "list"} -> "Listing"
      [] pc \in {"watermark", "respond"} -> "Finalizing"
      [] OTHER -> "ProcessingMessage"

\* the moves Idle, Listing, ProcessingMessage*, Finalizing, Idle allows,
\* a run that ends early and the next mailbox of a fleet run included
PhaseMoves ==
    {<<"Idle", "Listing">>,
     <<"Listing", "Listing">>, <<"Listing", "ProcessingMessage">>,
     <<"Listing", "Finalizing">>, <<"Listing", "Idle">>,
     <<"ProcessingMessage", "ProcessingMessage">>,
     <<"ProcessingMessage", "Finalizing">>,
     <<"Finalizing", "Finalizing">>, <<"Finalizing", "Idle">>,
     <<"Finalizing", "Listing">>}

\* one step of an invocation moves forward only
Forward(p) ==
    LET r == inv[p]
        r2 == inv'[p]
    IN  /\ <<PhaseOf(r.pc), PhaseOf(r2.pc)>> \in PhaseMoves
        /\ (r.pc # "idle" /\ r2.pc # "idle") =>
              /\ r2.mi >= r.mi
              /\ r2.pc = "list" /\ r.pc \in {"watermark", "list"} => r2.mi = r.mi + 1
              /\ r2.pc # "list" /\ r.pc \notin {"getMailbox", "selectMailboxes"}
                    => r2.mi = r.mi
              /\ r2.pc = "fetch" =>
                    \/ r.pc = "list" /\ r2.idx = 1
                    \/ r.pc = "endMsg" /\ r2.idx = r.idx + 1
              /\ (r.pc \notin {"list", "endMsg"} /\ r2.mi = r.mi) => r2.idx = r.idx
              /\ Len(r2.attempted) <= Len(r2.ids)

\* C13: every sync invocation follows Idle, Listing, ProcessingMessage*,
\* Finalizing, Idle and terminates: when every awaited call returns, the run
\* takes each listed identifier at most once and in list order, never goes
\* back to an earlier identifier or mailbox, and always reaches its response.
C13_RunTerminates ==
    /\ [][\A p \in SeqProcs : Forward(p)]_vars
    /\ \A p \in SeqProcs : []<>(inv[p].pc = "idle")

\* a run has handled two listed identifiers and answered
C13_Witness ==
    /\ inv[1].pc = "idle"
    /\ inv[1].response.kind = "counts"
    /\ Len(inv[1].ids) = 2
    /\ inv[1].attempted = inv[1].ids

\* no row of the store refers to a row that is not there
NoOrphans ==
    /\ \A i \in 1..Len(classifications) :
          classifications[i].msg \in 1..Len(messages)
    /\ \A i \in 1..Len(messages) : messages[i].thread \in 1..Len(threads)

\* the writes of one step: a new message goes under a thread of the mailbox
\* being synced, and the writes of one message come as thread, message,
\* classification, with nothing written after the classification
WriteOrder(p) ==
    LET r == inv[p] IN
    /\ threads' # threads =>
          /\ r.pc = "insThread"
          /\ threads' = Append(threads, threads'[Len(threads')])
          /\ r.cur.dT = 0 /\ r.cur.dM = 0 /\ r.cur.dK = 0
    /\ messages' # messages =>
          /\ r.pc = "insMsg"
          /\ messages' = Append(messages, messages'[Len(messages')])
          /\ threads[messages'[Len(messages')].thread].mb = Mailbox(r)
          /\ r.cur.dM = 0 /\ r.cur.dK = 0
    /\ classifications' # classifications =>
          /\ r.pc \in {"insClsExisting", "insClsNew"}
          /\ classifications' =
                Append(classifications, classifications'[Len(classifications')])
          /\ r.cur.dK = 0
          /\ inv'[p].pc = "endMsg"

\* C14: in every reachable state of the store, whatever failed and wherever
\* a run stopped, every classification refers to a stored message and every
\* message to a stored thread, a new message is stored under a thread of the
\* mailbox being synced, and the classification insert is the last write of
\* a message's sequence thread, message, classification.
C14_NoOrphans ==
    /\ []NoOrphans
    /\ [][\A p \in SeqProcs : WriteOrder(p)]_vars

\* a message has been written as thread, message, classification
C14_Witness ==
    /\ inv[1].pc = "endMsg"
    /\ inv[1].cur.dT = 1 /\ inv[1].cur.dM = 1 /\ inv[1].cur.dK = 1
    /\ Len(threads) >= 1 /\ Len(messages) >= 1 /\ Len(classifications) >= 1

\* no two threads of one mailbox carry the same provider thread id, and
\* every message lies under the thread of its provider thread
OneThreadPerPair ==
    /\ \A i, j \in 1..Len(threads) :
          (threads[i].mb = threads[j].mb /\ threads[i].gtid = threads[j].gtid)
             => i = j
    /\ \A i \in 1..Len(messages) :
          /\ messages[i].thread \in 1..Len(threads)
          /\ threads[messages[i].thread].gtid = GmailThreadOf(messages[i].gid)

\* a thread is written only for a pair the store has no thread for, and a
\* message whose pair has a thread is stored under that thread
CreateOrGetThread(p) ==
    LET r == inv[p]
        there == FindThread(threads, Mailbox(r), GmailThreadOf(r.cur.gid))
    IN  /\ threads' # threads =>
              /\ there = 0
              /\ threads' = Append(threads, [mb |-> Mailbox(r),
                                             gtid |-> GmailThreadOf(r.cur.gid)])
        /\ messages' # messages =>
              /\ there # 0
              /\ messages'[Len(messages')].thread = there

\* C15: after any sequence of sync runs there is at most one Thread per
\* (mailbox, provider thread id): a Thread is created only when the store
\* has none for the pair, and every later message of the same provider
\* thread in that mailbox is stored under the existing Thread.
C15_OneThreadPerPair ==
    /\ []OneThreadPerPair
    /\ [][\A p \in SeqProcs : CreateOrGetThread(p)]_vars

\* two messages of one provider thread lie under the one thread of the pair
C15_Witness ==
    /\ Len(threads) = 1
    /\ Len(messages) = 2
    /\ messages[1].thread = messages[2].thread
    /\ GmailThreadOf(messages[1].gid) = GmailThreadOf(messages[2].gid)

\* C21: when the classifier fails for a newly inserted message, the failure
\* is caught at that message: its Message row stays stored, no
\* Classification row is written for it, processed has been incremented and
\* classified has not, and the run goes on with the next identifier.
C21_ClassifierFailureKeepsMessage ==
    \A p \in Procs :
      LET r == inv[p] IN
      (r.pc = "endMsg" /\ r.cur.status = "NotClassified") =>
        /\ r.inserted # 0
        /\ FindMessage(messages, r.cur.gid) = r.inserted
        /\ FindClassification(classifications, r.inserted) = 0
        /\ r.cur.dM = 1 /\ r.cur.dK = 0
        /\ r.cur.dP = 1 /\ r.cur.dC = 0
        /\ r.ids[r.idx] = r.cur.gid
        /\ r.attempted = SubSeq(r.ids, 1, r.idx)

\* the classifier has failed for the first of two listed messages
C21_Witness ==
    /\ inv[1].pc = "endMsg"
    /\ inv[1].cur.status = "NotClassified"
    /\ inv[1].idx < Len(inv[1].ids)
    /\ FindMessage(messages, inv[1].cur.gid) # 0

\* a table after a step: as before, or as before with one row more
InsertOnly(old, new) ==
    \/ new = old
    \/ /\ Len(new) = Len(old) + 1
       /\ SubSeq(new, 1, Len(old)) = old

\* a message found classified has been left as it was
AlreadyClassifiedUntouched ==
    \A p \in Procs :
      (inv[p].pc = "endMsg" /\ inv[p].cur.status = "AlreadyClassified") =>
         /\ inv[p].cur.dT = 0 /\ inv[p].cur.dM = 0 /\ inv[p].cur.dK = 0
         /\ inv[p].cur.dP = 0

\* the step that finds a message classified writes nothing
SkipWritesNothing ==
    \A p \in SeqProcs :
      (inv[p].pc = "findCls" /\ inv'[p].pc = "endMsg"
       /\ inv'[p].cur.status = "AlreadyClassified") =>
         UNCHANGED <<threads, messages, classifications, watermark>>

\* C23: a sync run never updates or deletes a stored Thread, Message or
\* Classification: its writes to these tables are inserts, every stored row
\* keeps its content through every later run, and for a message that is
\* AlreadyClassified the run writes nothing.
C23_InsertOnly ==
    /\ []AlreadyClassifiedUntouched
    /\ [][/\ InsertOnly(threads, threads')
          /\ InsertOnly(messages, messages')
          /\ InsertOnly(classifications, classifications')
          /\ SkipWritesNothing]_vars

\* a later run has met a stored, classified message and skipped it
C23_Witness ==
    /\ inv[1].pc = "endMsg"
    /\ inv[1].cur.status = "AlreadyClassified"
    /\ now = 2
    /\ Len(messages) = 2
    /\ Len(classifications) = 2

\* the request names a mailbox that is not there or is another user's
NotOwnMailbox(r) ==
    r.kind = "single" /\ (r.reqMb \notin MailboxIds \/ UserOf(r.reqMb) # r.user)

\* such a request has been answered: an error, and nothing was called
RefusedCleanly ==
    \A p \in Procs :
      LET r == inv[p] IN
      (NotOwnMailbox(r) /\ r.pc \notin {"getMailbox"}) =>
         /\ r.pc = "idle"
         /\ r.response.kind = "error"
         /\ r.threw = {} => r.response.status = 404
         /\ r.mi = 0 /\ r.ids = <<>> /\ r.attempted = <<>>
         /\ \A m \in MailboxIds : r.listCount[m] = 0 /\ r.wmCount[m] = 0
         /\ r.processed = 0 /\ r.classified = 0

\* the step that answers such a request writes nothing
RefusalWritesNothing ==
    \A p \in SeqProcs :
      (inv[p].pc = "getMailbox" /\ NotOwnMailbox(inv[p])) =>
         UNCHANGED <<threads, messages, classifications, watermark, creds>>

\* C29: a single-mailbox sync request for a mailbox id that does not exist
\* or belongs to another user fails with "Mailbox not found" (404) before
\* any provider call, classifier call or store write; the store and that
\* mailbox's watermark are unchanged.  (Status 500 only if the lookup call
\* itself throws instead of returning.)
C29_NotFoundBeforeAnyCall ==
    /\ []RefusedCleanly
    /\ [][RefusalWritesNothing]_vars

\* a request for another user's mailbox has been refused with 404 while the
\* store holds rows of an earlier run
C29_Witness ==
    /\ inv[1].pc = "idle"
    /\ inv[1].kind = "single"
    /\ inv[1].reqMb \in MailboxIds
    /\ UserOf(inv[1].reqMb) # inv[1].user
    /\ inv[1].response = [kind |-> "error", status |-> 404]
    /\ Len(messages) >= 1
    /\ watermark[inv[1].reqMb] = 0

\* the listed identifiers the loop of the current mailbox has taken so far
Taken(r) == Min(r.idx, Len(r.ids))

\* the Message rows the run has inserted for the current mailbox: stored
\* now, and not stored when the mailbox was listed
InsertedByRun(r) ==
    Cardinality({g \in GmailIds :
                    r.pre0[g] = "absent" /\ FindMessage(messages, g) # 0})

\* the counts of one mailbox in a response are within its total
WithinTotal(e) == e.processed <= e.total /\ e.classified <= e.total

\* C28: at every point of a sync run over one mailbox, processed and
\* classified are each at most the number of identifiers attempted so far,
\* which is at most total; processed equals the number of Message rows the
\* run inserted, and each identifier adds at most 1 to each counter.
C28_CountersBounded ==
    \A p \in Procs :
      LET r == inv[p] IN
      /\ (InLoop(r) \/ r.pc = "watermark") =>
            /\ r.processed <= Taken(r)
            /\ r.classified <= Taken(r)
            /\ Taken(r) <= Len(r.ids)
            /\ r.processed = InsertedByRun(r)
      /\ InLoop(r) => (r.cur.dP <= 1 /\ r.cur.dC <= 1)
      /\ r.pc = "endMsg" =>
            (r.processed <= Len(r.attempted) /\ r.classified <= Len(r.attempted))
      /\ (r.pc = "idle" /\ r.response.kind = "counts") =>
            /\ WithinTotal(r.response)
            /\ r.response.processed = InsertedByRun(r)
      /\ (r.pc = "idle" /\ r.response.kind = "results") =>
            \A i \in 1..Len(r.response.results) :
               r.response.results[i].kind = "counts" =>
                  WithinTotal(r.response.results[i])

\* a run has listed two identifiers and returned processed 2 of total 2
C28_Witness ==
    /\ inv[1].pc = "idle"
    /\ inv[1].response.kind = "counts"
    /\ inv[1].response.total = 2
    /\ inv[1].response.processed = 2
    /\ inv[1].response.classified >= 1

\* the invocation as the single-mailbox handler would run it
AsSingle(r) == [r EXCEPT !.kind = "single"]

\* the invocation as the fleet handler would run it
AsFleet(r) == [r EXCEPT !.kind = "all"]

\* C24: the fleet sync applies the same per-mailbox algorithm as the
\* single-mailbox sync: from the same store, with the same provider,
\* classifier and store outcomes, both leave the same store and report the
\* same total, processed and classified; so wherever a run stands at a
\* classification insert, both handlers add the same to classified for
\* each outcome of that insert.
C24_FleetEqualsSingle ==
    \A p \in Procs :
      LET r == inv[p] IN
      /\ r.pc = "insClsExisting" =>
            \A eff \in StoreOutcomes :
               ExistingCounts(AsSingle(r), eff) = ExistingCounts(AsFleet(r), eff)
      /\ r.pc = "insClsNew" =>
            \A eff \in StoreOutcomes :
               NewCounts(AsSingle(r), eff) = NewCounts(AsFleet(r), eff)

(* -------------------- replies and analytics routes -------------------- *)

\* sentiment the classifier stored for a provider message (fixed test data;
\* of the sentiments the overview counts, these two occur)
SentimentOf(g) == IF g = "a" THEN "positive" ELSE "neutral"

\* classification ids a request may name: those of the table and one more
ReplyIds == 1..(Cardinality(GmailIds) + 1)

\* what earlier sync runs stored: message a ingested for m1, for m4 or not
\* at all, message b for m1 or not at all, each of them classified or not
Ingested ==
    {c \in [a : {"none", "m1", "m4"}, b : {"none", "m1"},
            ca : BOOLEAN, cb : BOOLEAN] :
        /\ c.ca => c.a # "none"
        /\ c.cb => c.b # "none"}

SyncedThreads(c) ==
    (IF c.a # "none" THEN <<[mb |-> c.a, gtid |-> GmailThreadOf("a")]>> ELSE <<>>)
    \o (IF c.b # "none" /\ c.b # c.a
        THEN <<[mb |-> c.b, gtid |-> GmailThreadOf("b")]>> ELSE <<>>)

SyncedMessages(c) ==
    (IF c.a # "none" THEN <<[gid |-> "a", thread |-> 1]>> ELSE <<>>)
    \o (IF c.b # "none"
        THEN <<[gid |-> "b", thread |-> Len(SyncedThreads(c))]>> ELSE <<>>)

SyncedClassifications(c) ==
    (IF c.ca THEN <<[msg |-> 1, via |-> "ingest"]>> ELSE <<>>)
    \o (IF c.cb
        THEN <<[msg |-> Len(SyncedMessages(c)), via |-> "ingest"]>> ELSE <<>>)

\* message:messages(thread:threads(mailbox:mailboxes(id, user_id))) of a
\* classification row
MailboxOfClassification(i) == threads[messages[classifications[i].msg].thread].mb

OwnerOfClassification(i) == UserOf(MailboxOfClassification(i))

SentimentOfClassification(i) == SentimentOf(messages[classifications[i].msg].gid)

\* .delete().eq('id', id): the table without that row
RemoveRow(rows, i) == SubSeq(rows, 1, i - 1) \o SubSeq(rows, i + 1, Len(rows))

\* a request handler of the two routers; target is the owner of the row the
\* request names when the handler looked it up, pre the table it found
IdleApi ==
    [pc |-> "idle", route |-> "none", user |-> "none", id |-> 0,
     target |-> "none", pre |-> <<>>, response |-> NoResponse]

ApiRequest(route, u, i) ==
    [IdleApi EXCEPT !.route = route, !.user = u, !.id = i,
                    !.target = IF i \in 1..Len(classifications)
                               THEN OwnerOfClassification(i) ELSE "none",
                    !.pre = classifications]

Answer(a, resp) == [a EXCEPT !.pc = "answered", !.response = resp]

ApiError(status, msg) == [kind |-> "error", status |-> status, message |-> msg]

\* DELETE /:id, first await: select('id, message_id').eq('id', id).single()
DeleteLookup ==
    /\ api.pc \in {"idle", "answered"}
    /\ \E u \in Users, i \in ReplyIds, o \in StoreOutcomes :
         LET a == ApiRequest("delete", u, i) IN
         api' = CASE o = "throw" -> Answer(a, ApiError(500, "Internal server error"))
                  [] o = "err" \/ (o = "ok" /\ i \notin 1..Len(classifications)) ->
                       Answer(a, ApiError(404, "Classification not found"))
                  [] OTHER -> [a EXCEPT !.pc = "delete"]
    /\ UNCHANGED <<syncVars, gem, norm>>

\* DELETE /:id, second await: delete().eq('id', id), then res.json
DeleteRow ==
    /\ api.pc = "delete"
    /\ \E o \in StoreOutcomes :
         /\ classifications' = IF o = "ok" THEN RemoveRow(classifications, api.id)
                               ELSE classifications
         /\ api' = CASE o = "ok"    -> Answer(api, [kind |-> "success"])
                     [] o = "err"   -> Answer(api, ApiError(500, "Failed to delete classification"))
                     [] o = "throw" -> Answer(api, ApiError(500, "Internal server error"))
    /\ UNCHANGED <<threads, messages, watermark, now, creds, inv, gem, norm>>

\* GET /:id: the row with its message, thread and mailbox, then the
\* comparison of mailbox.user_id with req.userId
GetReply ==
    /\ api.pc \in {"idle", "answered"}
    /\ \E u \in Users, i \in ReplyIds, o \in StoreOutcomes :
         LET a == ApiRequest("get", u, i) IN
         api' = CASE o = "throw" -> Answer(a, ApiError(500, "Internal server error"))
                  [] o = "err" \/ (o = "ok" /\ i \notin 1..Len(classifications)) ->
                       Answer(a, ApiError(404, "Reply not found"))
                  [] o = "ok" /\ i \in 1..Len(classifications)
                       /\ OwnerOfClassification(i) # u ->
                       Answer(a, ApiError(403, "Unauthorized"))
                  [] OTHER ->
                       Answer(a, [kind |-> "reply", id |-> i,
                                  mailbox |-> MailboxOfClassification(i)])
    /\ UNCHANGED <<syncVars, gem, norm>>

\* the rows the overview query returns for a user: classifications with the
\* inner joins to messages, threads and mailboxes, and no filter on user_id
OverviewRows(u) == 1..Len(classifications)

CountOf(rows, sentiment) ==
    Cardinality({i \in rows : SentimentOfClassification(i) = sentiment})

\* byMailbox: one entry for every mailbox that has a row, with its counts
ByMailbox(rows) ==
    {[mailbox_id |-> m,
      positive |-> CountOf({i \in rows : MailboxOfClassification(i) = m}, "positive"),
      neutral  |-> CountOf({i \in rows : MailboxOfClassification(i) = m}, "neutral")] :
        m \in {MailboxOfClassification(i) : i \in rows}}

\* GET /overview: one query, then the totals and the breakdown
Overview ==
    /\ api.pc \in {"idle", "answered"}
    /\ \E u \in Users, o \in StoreOutcomes :
         LET a == ApiRequest("overview", u, 0)
             rows == OverviewRows(u) IN
         api' = CASE o = "throw" -> Answer(a, ApiError(500, "Internal server error"))
                  [] o = "err" -> Answer(a, ApiError(500, "Failed to fetch analytics"))
                  [] OTHER ->
                       Answer(a, [kind |-> "overview",
                                  totalReplies |-> Cardinality(rows),
                                  positiveCount |-> CountOf(rows, "positive"),
                                  neutralCount |-> CountOf(rows, "neutral"),
                                  byMailbox |-> ByMailbox(rows)])
    /\ UNCHANGED <<syncVars, gem, norm>>

InitReplies ==
    /\ \E c \in Ingested :
         /\ threads = SyncedThreads(c)
         /\ messages = SyncedMessages(c)
         /\ classifications = SyncedClassifications(c)
    /\ watermark = [m \in MailboxIds |-> 0]
    /\ now = 0
    /\ creds = "none"
    /\ inv = [p \in Procs |-> IdleInv]
    /\ gem = NoCall
    /\ norm = NoCall
    /\ api = IdleApi

NextReplies == DeleteLookup \/ DeleteRow \/ GetReply \/ Overview

SpecReplies == InitReplies /\ [][NextReplies]_vars

(* --------------------- interleaved invocation claims ------------------- *)

\* C25: when two sync invocations that list the same provider message id
\* interleave at their awaits, both may find the message absent, but the
\* store never holds two Message rows for the id: the later insert is
\* rejected by the unique constraint and that invocation skips the message
\* without counting it as processed.
C25_ConcurrentDedup ==
    /\ \A g \in GmailIds : Cardinality(MessagesOf(g)) <= 1
    /\ \A p \in Procs :
         LET r == inv[p] IN
         (r.pc = "endMsg" /\ r.cur.status = "InsertFailed") =>
            /\ r.cur.lookup = "absent"
            /\ r.cur.dP = 0 /\ r.cur.dM = 0
            /\ r.cur.dC = 0 /\ r.cur.dK = 0
            /\ r.processed <= Taken(r) - 1
            /\ ~r.cur.failed => FindMessage(messages, r.cur.gid) # 0

\* both invocations found the message absent; the second insert was
\* rejected by the constraint alone and the message skipped
C25_Witness ==
    /\ inv[2].pc = "endMsg"
    /\ inv[2].cur.status = "InsertFailed"
    /\ inv[2].cur.lookup = "absent"
    /\ ~inv[2].cur.failed
    /\ inv[2].processed = 0
    /\ Cardinality(MessagesOf(inv[2].cur.gid)) = 1
    /\ inv[1].processed >= 1

\* C30: every provider list or fetch call issued for a mailbox is made with
\* that mailbox's own credentials, also when invocations for two different
\* mailboxes interleave at their awaits.
C30_OwnCredentials ==
    \A p \in Procs :
      inv[p].pc \notin {"idle", "getMailbox", "selectMailboxes",
                        "list", "listAwait", "respond"} =>
         inv[p].usedCreds = Mailbox(inv[p])

(* ------------------- replies and analytics claims -------------------- *)

\* the rows of the classifications table that belong to a mailbox of user u
OwnRows(u) == {i \in 1..Len(classifications) : OwnerOfClassification(i) = u}

\* C26: DELETE /:id removes the Classification only when it belongs to a
\* message in a mailbox owned by the authenticated user; a request naming
\* another user's classification deletes no row.
C26_DeleteOnlyOwn ==
    (api.pc = "answered" /\ api.route = "delete") =>
       /\ classifications # api.pre => api.target = api.user
       /\ api.target # api.user => api.response.kind = "error"

\* C27: the analytics overview of a user counts only the classifications of
\* messages in mailboxes that user owns, in the totals and in the
\* per-mailbox breakdown.
C27_OverviewOwnOnly ==
    (api.pc = "answered" /\ api.route = "overview"
        /\ api.response.kind = "overview") =>
       /\ api.response.totalReplies = Cardinality(OwnRows(api.user))
       /\ api.response.positiveCount = CountOf(OwnRows(api.user), "positive")
       /\ api.response.neutralCount = CountOf(OwnRows(api.user), "neutral")
       /\ api.response.byMailbox = ByMailbox(OwnRows(api.user))

(* --------------------------- retry claims ----------------------------- *)

Classified(g) == PreStatus(messages, classifications, g) = "classified"

\* the message is stored without a classification, or a thread of its
\* provider thread is stored and the message is not
Partial(g) ==
    \/ PreStatus(messages, classifications, g) = "unclassified"
    \/ /\ PreStatus(messages, classifications, g) = "absent"
       /\ \E i \in 1..Len(threads) : threads[i].gtid = GmailThreadOf(g)

\* C22: a Message stored without a Classification, and a Thread stored
\* without its Message, is completed by a later sync run: when the mailbox
\* keeps being synced and the fetch, classifier and store calls succeed in
\* the end, the Message eventually has a Classification.
C22_PartialStateCompleted ==
    \A g \in GmailIds : Partial(g) ~> Classified(g)

\* a later run has classified a message that an earlier run left without
C22_Witness ==
    /\ inv[1].pc = "endMsg"
    /\ inv[1].cur.pre = "unclassified"
    /\ inv[1].cur.clsStored
    /\ Classified(inv[1].cur.gid)

====
